---- MODULE Spec2Model ----
(***************************************************************************)
(* Model of the PolyBot chat assistant (sanatren/GPT_prob):                *)
(*   Bot/document_processor.py  DocumentProcessor (per-session indexes)    *)
(*   Bot/rag_chain.py           RAGChain (retrieval + answer composition)  *)
(*   Bot/chatbot_memory.py      history trimming, session store access     *)
(*   Streamlit/app.py           the page script and its store helpers      *)
(*                                                                         *)
(* The specifications share the variables:                                 *)
(*   Spec       calls on one DocumentProcessor / RAGChain object           *)
(*   SpecApp    user requests against the Streamlit page script            *)
(*   SpecStore  the Supabase tables and the functions that write them      *)
(*   SpecTrim   trim_history applied to histories of growing length        *)
(*   SpecMemory the in-memory session_data next to the store               *)
(*   SpecPrompt answer_question and invoke_with_language                   *)
(*   SpecChat   sending messages through the page script                   *)
(*   SpecUpsert save_session_to_supabase run by two callers at once        *)
(***************************************************************************)
EXTENDS Integers, Sequences, FiniteSets, TLC

VARIABLES
    vectorstores,   \* DocumentProcessor.vectorstores: session_id -> index (sequence of chunks)
    tempfiles,      \* number of temporary files process_file created and left on disk
    ret,            \* the last call made and what it returned
    widget,         \* Streamlit state kept across reruns: current_session, uploaded file
    sessions,       \* Supabase table "sessions": session_id -> [name, language]
    history,        \* Supabase table "history": rows in timestamp order
    trim,           \* argument and result of the last trim_history call
    session_data,   \* chatbot_memory.session_data: session_id -> [history, language]
    callers         \* save_session_to_supabase calls under way in concurrent callers

vars == <<vectorstores, tempfiles, ret, widget, sessions, history, trim,
          session_data, callers>>

----------------------------------------------------------------------------
(* Bounds *)

MaxChunks == 3      \* largest index size explored
MaxK == 3           \* largest k passed to query_documents
MaxTemp == 1        \* temp files left behind before uploads of corrupt files stop
MaxRows == 3        \* rows in the history table
MaxHistory == 22    \* longest history handed to trim_history
MaxChat == 6        \* longest chat_history handed to answer_question

(* Program constants *)

MAX_HISTORY_LENGTH == 20
DEFAULT_K == 4

SessionIds == {"sA", "sB"}
Queries == {"q1", "q2"}
None == "None"

Min(a, b) == IF a < b THEN a ELSE b
Max(a, b) == IF a > b THEN a ELSE b

\* Python's s[start:] for a list s and an integer start
PySliceFrom(s, start) ==
    LET n == Len(s)
        lo == IF start < 0 THEN Max(n + start, 0) ELSE Min(start, n)
    IN  SubSeq(s, lo + 1, n)

\* Python's s[:stop] for a list s and an integer stop
PySliceTo(s, stop) ==
    LET n == Len(s)
        hi == IF stop < 0 THEN Max(n + stop, 0) ELSE Min(stop, n)
    IN  SubSeq(s, 1, hi)

----------------------------------------------------------------------------
(* Uploaded files.  name is the file name split at "."; text is what the   *)
(* extractor reads, as a sequence of chunk-sized segments (0 is a segment  *)
(* of whitespace only, <<>> is the empty string); corrupt files make the   *)
(* binary-format extractors raise.                                         *)

FileNotes  == [name |-> <<"notes", "txt">>,   text |-> <<1, 2>>, corrupt |-> FALSE]
FileReport == [name |-> <<"report", "PDF">>,  text |-> <<3>>,    corrupt |-> FALSE]
FileEmpty  == [name |-> <<"empty", "txt">>,   text |-> <<>>,     corrupt |-> FALSE]
FileBlank  == [name |-> <<"blank", "txt">>,   text |-> <<0>>,    corrupt |-> FALSE]
FileBroken == [name |-> <<"broken", "docx">>, text |-> <<>>,     corrupt |-> TRUE]
FileTool   == [name |-> <<"tool", "exe">>,    text |-> <<4>>,    corrupt |-> FALSE]

Files == {FileNotes, FileReport, FileEmpty, FileBlank, FileBroken, FileTool}

\* str.lower() on the extensions in use
Lower(s) == CASE s = "PDF" -> "pdf" [] s = "TXT" -> "txt" [] OTHER -> s

\* uploaded_file.name.split('.')[-1].lower()
FileExtension(f) == Lower(f.name[Len(f.name)])

SupportedExtensions == {"pdf", "docx", "xlsx", "xls", "pptx", "txt"}

\* _extract_text_from_*: the text, or an exception for an unreadable binary
\* file (the txt reader opens with errors='replace' and reads anything)
ExtractRaises(f, ext) == f.corrupt /\ ext # "txt"

\* text_splitter.split_documents([doc]): one chunk per non-blank segment,
\* each carrying the document's metadata.  session is a history field: the
\* session_id of the process_file call that produced the chunk.
RECURSIVE SplitDocuments(_, _, _, _)
SplitDocuments(text, source, ext, sid) ==
    IF text = <<>> THEN <<>>
    ELSE LET rest == SplitDocuments(Tail(text), source, ext, sid)
         IN  IF Head(text) = 0 THEN rest
             ELSE <<[page_content |-> Head(text),
                     metadata |-> [source |-> source, file_type |-> ext],
                     session |-> sid]>> \o rest

----------------------------------------------------------------------------
(* DocumentProcessor *)

\* IndexUpdate with the new batch taking the place of the old chunks
IndexUpdateReplace(index, chunks, embedFail) ==
    IF embedFail # 0 \/ chunks = <<>>
    THEN [raised |-> TRUE, index |-> index]
    ELSE [raised |-> FALSE, index |-> chunks]

\* IndexUpdate embedding and adding chunk by chunk: the chunks before the
\* failing one are in the index when the exception is raised
IndexUpdatePartial(index, chunks, embedFail) ==
    IF chunks = <<>> THEN [raised |-> TRUE, index |-> index]
    ELSE IF embedFail # 0
    THEN [raised |-> TRUE, index |-> index \o SubSeq(chunks, 1, embedFail - 1)]
    ELSE [raised |-> FALSE, index |-> index \o chunks]

\* vectorstore.add_documents(chunks) / FAISS.from_documents(chunks, embeddings):
\* the whole batch is embedded first and only then put into the index.
\* embedFail = 0: the provider answers; embedFail = i: it fails on chunk i.
\* An empty batch makes the index constructor and the index add raise.
\* Result: whether an exception is raised, and the index afterwards
\* (add_documents works on the index object in place, so whatever it has
\* put there before raising stays).
IndexUpdate(index, chunks, embedFail) ==
    IF embedFail # 0 \/ chunks = <<>>
    THEN [raised |-> TRUE, index |-> index]
    ELSE [raised |-> FALSE, index |-> index \o chunks]

\* SetStore on a processor that keeps one index for all sessions
SetStoreShared(vs, sid, index) ==
    [s \in DOMAIN vs \cup {sid} |-> index]

\* the dict after  self.vectorstores[session_id] = index
SetStore(vs, sid, index) ==
    [s \in DOMAIN vs \cup {sid} |-> IF s = sid THEN index ELSE vs[s]]

\* the dict after  del self.vectorstores[session_id]
DelStore(vs, sid) == [s \in DOMAIN vs \ {sid} |-> vs[s]]

\* DocumentProcessor.process_file(uploaded_file, session_id)
\*   value:    the bool returned
\*   unlinked: whether os.unlink removed the temporary file before returning
ProcessFile(vs, f, sid, embedFail) ==
    LET ext == FileExtension(f)
        unchanged(v, u) == [vectorstores |-> vs, value |-> v, unlinked |-> u]
    IN  IF ext \notin SupportedExtensions
        THEN unchanged(FALSE, TRUE)                    \* lines 64-67
        ELSE IF ExtractRaises(f, ext)
        THEN unchanged(FALSE, FALSE)                   \* lines 100-102
        ELSE IF f.text = <<>>
        THEN unchanged(FALSE, TRUE)                    \* lines 70-74
        ELSE LET chunks == SplitDocuments(f.text, f.name, ext, sid)
                 old == IF sid \in DOMAIN vs THEN vs[sid] ELSE <<>>
                 new == IndexUpdate(old, chunks, embedFail)
             IN  IF new.raised                             \* lines 100-102
                 THEN [vectorstores |-> IF sid \in DOMAIN vs
                                        THEN SetStore(vs, sid, new.index)
                                        ELSE vs,
                       value |-> FALSE, unlinked |-> TRUE]
                 ELSE [vectorstores |-> SetStore(vs, sid, new.index),
                       value |-> TRUE, unlinked |-> TRUE]

\* ClearDocuments emptying the whole dict (self.vectorstores.clear())
ClearDocumentsAll(vs, sid) ==
    IF sid \in DOMAIN vs
    THEN [vectorstores |-> [s \in {} |-> <<>>], value |-> TRUE]
    ELSE [vectorstores |-> vs, value |-> FALSE]

\* DocumentProcessor.clear_documents(session_id)
ClearDocuments(vs, sid) ==
    IF sid \in DOMAIN vs
    THEN [vectorstores |-> DelStore(vs, sid), value |-> TRUE]
    ELSE [vectorstores |-> vs, value |-> FALSE]

\* Distance between the embedding of a query and of a chunk's text, in
\* tenths.  The embedding is a function of the text alone, so equal texts
\* are at equal distance; texts 2 and 3 are equally far from q1.
Dist(q, content) ==
    IF q = "q1" THEN (CASE content = 1 -> 1 [] content = 2 -> 4 [] OTHER -> 4)
    ELSE (CASE content = 1 -> 9 [] content = 2 -> 4 [] OTHER -> 1)

\* all orders in which positions 1..n can be visited
ScanOrders(n) ==
    {p \in [1..n -> 1..n] : \A i, j \in 1..n : i # j => p[i] # p[j]}

ScanTable == [n \in 0..MaxChunks |-> ScanOrders(n)]

\* NearestFirst of an index that ranks by insertion order, whatever the distance
NearestFirstUnranked(index, q) == {[i \in 1..Len(index) |-> i]}

\* the orders of the positions of index that are ascending by distance to q.
\* The source leaves the order among equally distant chunks to the index
\* library, so every such order is a possible answer of the library.
NearestFirst(index, q) ==
    {p \in ScanTable[Len(index)] :
        \A i \in 1..(Len(index) - 1) :
            Dist(q, index[p[i]].page_content) <= Dist(q, index[p[i + 1]].page_content)}

\* vectorstore.similarity_search_with_score(query, k): the min(k, n) nearest
\* positions, ascending by distance; order is the library's ranking.
SimilaritySearch(index, q, k, order) ==
    SubSeq(order, 1, Min(k, Len(index)))

\* DocumentProcessor.query_documents(query, session_id, k)
QueryDocuments(vs, q, sid, k, order) ==
    IF sid \notin DOMAIN vs THEN <<>>
    ELSE LET index == vs[sid]
             found == SimilaritySearch(index, q, k, order)
         IN  [i \in 1..Len(found) |->
                [content  |-> index[found[i]].page_content,
                 metadata |-> index[found[i]].metadata,
                 score    |-> Dist(q, index[found[i]].page_content),
                 position |-> found[i],
                 session  |-> index[found[i]].session]]

\* the rankings the library may produce for query q on session sid
Rankings(vs, sid, q) ==
    IF sid \in DOMAIN vs THEN NearestFirst(vs[sid], q) ELSE {<<>>}

----------------------------------------------------------------------------
(* RAGChain *)

\* the number of messages answer_question takes from the end of chat_history
PromptHistoryLength == 5

\* formatted_history taking the first messages instead of the last ones
FormatHistoryHead(chat_history) ==
    LET window == PySliceTo(chat_history, PromptHistoryLength)
    IN  [i \in 1..Len(window) |->
            [prefix  |-> IF window[i].role = "user" THEN "User: " ELSE "Assistant: ",
             message |-> window[i].message]]

\* formatted_history of answer_question (lines 74-78): one line per message
\* of chat_history[-5:], the role prefix followed by the message
FormatHistory(chat_history) ==
    LET window == PySliceFrom(chat_history, 0 - PromptHistoryLength)
    IN  [i \in 1..Len(window) |->
            [prefix  |-> IF window[i].role = "user" THEN "User: " ELSE "Assistant: ",
             message |-> window[i].message]]

\* AnswerQuestion testing "docs is None" instead of "not docs": an empty
\* result list would be treated as grounded
AnswerQuestionNoneTest(vs, question, sid, chat_history, order, genOk) ==
    LET docs == QueryDocuments(vs, question, sid, DEFAULT_K, order)
        prompt == [chat_history |-> FormatHistory(chat_history),
                   question |-> question, context |-> docs]
    IN  IF ~genOk
        THEN [path |-> "grounded", raised |-> TRUE, prompt |-> prompt]
        ELSE [path |-> "grounded", raised |-> FALSE, prompt |-> prompt,
              answer |-> "answer", sources |-> docs]

\* RAGChain.answer_question(question, session_id, chat_history, language)
\* genOk: whether the generation call returns.  path names the branch taken,
\* prompt what the branch hands to the generation call.
AnswerQuestion(vs, question, sid, chat_history, order, genOk) ==
    LET docs == QueryDocuments(vs, question, sid, DEFAULT_K, order)
        path == IF docs = <<>> THEN "ungrounded" ELSE "grounded"
        prompt == [chat_history |-> FormatHistory(chat_history),
                   question |-> question, context |-> docs]
    IN  IF ~genOk
        THEN [path |-> path, raised |-> TRUE,          \* the call's exception propagates
              prompt |-> prompt]
        ELSE IF docs = <<>>
        THEN [path |-> path, raised |-> FALSE, prompt |-> prompt,
              answer |-> "answer", sources |-> <<>>]
        ELSE [path |-> path, raised |-> FALSE, prompt |-> prompt,
              answer |-> "answer", sources |-> docs]

----------------------------------------------------------------------------
(* Initial state: a freshly constructed DocumentProcessor (line 32), no     *)
(* temp file, the page on session sA with nothing uploaded, empty tables.  *)

NoStores == [s \in {} |-> <<>>]

InitDocs ==
    /\ vectorstores = NoStores
    /\ tempfiles = 0
    /\ ret = [op |-> "init"]

\* the file uploader holding no file
NoFile == [name |-> <<>>, text |-> <<>>, corrupt |-> FALSE]

InitWidget ==
    widget = [current_session |-> "sA", current_session_name |-> "Trip",
              current_language |-> "English", uploaded_file |-> NoFile,
              pending_user_message |-> None]

InitStore ==
    /\ sessions = [s \in {} |-> None]
    /\ history = <<>>

InitTrim == trim = [history |-> <<>>, called |-> FALSE, max_length |-> 0, result |-> <<>>]

\* chatbot_memory.py line 24: session_data = {}
InitMemory == session_data = [s \in {} |-> None]

\* the processes that may call save_session_to_supabase at the same time
Callers == {"c1", "c2"}

IdleCall == [pc |-> "idle", session_id |-> None, name |-> None, language |-> None,
             existing |-> FALSE, outage |-> FALSE, value |-> None]

InitCallers == callers = [calls |-> [c \in Callers |-> IdleCall], last |-> None]

Init == InitDocs /\ InitWidget /\ InitStore /\ InitTrim /\ InitMemory /\ InitCallers

IndexSize(vs, sid) == IF sid \in DOMAIN vs THEN Len(vs[sid]) ELSE 0

----------------------------------------------------------------------------
(* Calls on one DocumentProcessor / RAGChain *)

\* rag_chain.process_file(uploaded_file, session_id)
ProcessFileCall(f, sid, embedFail) ==
    LET r == ProcessFile(vectorstores, f, sid, embedFail)
        left == IF r.unlinked THEN 0 ELSE 1
    IN  /\ IndexSize(vectorstores, sid) + Len(f.text) <= MaxChunks
        /\ tempfiles + left <= MaxTemp
        /\ vectorstores' = r.vectorstores
        /\ tempfiles' = tempfiles + left
        /\ ret' = [op |-> "process_file", session_id |-> sid, file |-> f,
                   value |-> r.value, unlinked |-> r.unlinked,
                   embed_fail |-> embedFail,
                   had_index |-> sid \in DOMAIN vectorstores]
        /\ UNCHANGED <<widget, sessions, history, trim, session_data, callers>>

\* rag_chain.clear_documents(session_id)
ClearDocumentsCall(sid) ==
    LET r == ClearDocuments(vectorstores, sid)
    IN  /\ vectorstores' = r.vectorstores
        /\ ret' = [op |-> "clear_documents", session_id |-> sid,
                   value |-> r.value, had_index |-> sid \in DOMAIN vectorstores]
        /\ UNCHANGED <<tempfiles, widget, sessions, history, trim, session_data, callers>>

\* document_processor.query_documents(query, session_id, k)
QueryDocumentsCall(q, sid, k, order) ==
    /\ ret' = [op |-> "query_documents", session_id |-> sid, query |-> q,
               k |-> k, docs |-> QueryDocuments(vectorstores, q, sid, k, order)]
    /\ UNCHANGED <<vectorstores, tempfiles, widget, sessions, history, trim, session_data, callers>>

\* the chat_history arguments tried: conversations of 0..MaxChat messages
\* whose roles run through user, assistant and a third role, from any of
\* the three; the message of a conversation's i-th entry is the numeral i
ChatRoles == <<"user", "assistant", "system">>

Conversation(n, first) ==
    [i \in 1..n |-> [role |-> ChatRoles[((i + first) % 3) + 1],
                     message |-> ToString(i)]]

ChatHistories == {Conversation(n, first) : n \in 0..MaxChat, first \in 0..2}

\* rag_chain.answer_question(question, session_id, chat_history, language)
AnswerQuestionCall(q, sid, chat_history, order, genOk) ==
    LET r == AnswerQuestion(vectorstores, q, sid, chat_history, order, genOk)
    IN  /\ ret' = [op |-> "answer_question", session_id |-> sid, query |-> q,
                   chat_history |-> chat_history, result |-> r]
        /\ UNCHANGED <<vectorstores, tempfiles, widget, sessions, history, trim, session_data, callers>>

Next ==
    \/ \E f \in Files, sid \in SessionIds, embedFail \in 0..MaxChunks :
          /\ embedFail <= Len(f.text)
          /\ ProcessFileCall(f, sid, embedFail)
    \/ \E sid \in SessionIds : ClearDocumentsCall(sid)
    \/ \E q \in Queries, sid \in SessionIds, k \in 1..MaxK :
          \E order \in Rankings(vectorstores, sid, q) : QueryDocumentsCall(q, sid, k, order)
    \/ \E q \in Queries, sid \in SessionIds, genOk \in BOOLEAN :
          \E order \in Rankings(vectorstores, sid, q) :
              AnswerQuestionCall(q, sid, <<>>, order, genOk)

Spec == Init /\ [][Next]_vars

----------------------------------------------------------------------------
(* Properties of the DocumentProcessor calls (specification Spec) *)

OtherSessions(sid) == SessionIds \ {sid}

\* C1: session isolation.  Whatever process_file, clear_documents and
\* query_documents calls came before, every chunk query_documents returns
\* for session S was produced by a process_file call made with session_id S.
C1_SessionIsolation ==
    ret.op = "query_documents" =>
        \A i \in 1..Len(ret.docs) : ret.docs[i].session = ret.session_id

\* a query that returns chunks while another session holds an index too
C1_Witness ==
    /\ ret.op = "query_documents"
    /\ ret.docs # <<>>
    /\ \E t \in OtherSessions(ret.session_id) :
          t \in DOMAIN vectorstores /\ vectorstores[t] # <<>>

\* C2: for a session without an index entry query_documents returns the
\* empty list for every query and k, and answer_question takes the
\* ungrounded path; what it returns has sources = [].
C2_NoIndexUngrounded ==
    /\ (ret.op = "query_documents" /\ ret.session_id \notin DOMAIN vectorstores)
          => ret.docs = <<>>
    /\ (ret.op = "answer_question" /\ ret.session_id \notin DOMAIN vectorstores)
          => /\ ret.result.path = "ungrounded"
             /\ ~ret.result.raised => ret.result.sources = <<>>

\* answer_question returned for a session without index while another
\* session has one
C2_Witness ==
    /\ ret.op = "answer_question"
    /\ ret.session_id \notin DOMAIN vectorstores
    /\ ~ret.result.raised
    /\ DOMAIN vectorstores # {}

\* the chunks the last process_file call made from its file
ChunksOfCall(r) ==
    SplitDocuments(r.file.text, r.file.name, FileExtension(r.file), r.session_id)

\* C3: index union.  When process_file succeeds for a session that already
\* has an index, the old chunks are all still there, in place, the new
\* chunks follow them, and the size grows by the number of new chunks.
C3_IndexUnion ==
    [][(ret'.op = "process_file" /\ ret'.value /\ ret'.session_id \in DOMAIN vectorstores)
        => LET sid == ret'.session_id
               old == vectorstores[sid]
               new == vectorstores'[sid]
               added == ChunksOfCall(ret')
           IN  /\ Len(new) = Len(old) + Len(added)
               /\ SubSeq(new, 1, Len(old)) = old
               /\ SubSeq(new, Len(old) + 1, Len(new)) = added]_vars

\* a second upload into a session succeeded
C3_Witness ==
    /\ ret.op = "process_file"
    /\ ret.value
    /\ ret.had_index
    /\ Len(vectorstores[ret.session_id]) > Len(ChunksOfCall(ret))

\* C5: clear_documents(A) leaves A without index entry, so that every query
\* on A returns the empty list, leaves every other session's index as it
\* was, and returns True exactly when A had an index.
C5_ClearFrame ==
    [][ret'.op = "clear_documents"
        => LET A == ret'.session_id
           IN  /\ A \notin DOMAIN vectorstores'
               /\ \A q \in Queries, k \in 1..MaxK :
                     QueryDocuments(vectorstores', q, A, k, <<>>) = <<>>
               /\ \A s \in OtherSessions(A) :
                     /\ s \in DOMAIN vectorstores' <=> s \in DOMAIN vectorstores
                     /\ s \in DOMAIN vectorstores => vectorstores'[s] = vectorstores[s]
               /\ ret'.value = (A \in DOMAIN vectorstores)]_vars

\* an index was cleared while another session keeps its own
C5_Witness ==
    /\ ret.op = "clear_documents"
    /\ ret.value
    /\ \E t \in OtherSessions(ret.session_id) :
          t \in DOMAIN vectorstores /\ vectorstores[t] # <<>>

\* C6: a process_file call that returns False leaves the set of sessions
\* with an index and the chunks of every index as they were.
C6_FailedIngestionNoMutation ==
    [][(ret'.op = "process_file" /\ ~ret'.value)
        => vectorstores' = vectorstores]_vars

\* the embedding provider failed on the second chunk of an upload into a
\* session that has an index
C6_Witness ==
    /\ ret.op = "process_file"
    /\ ~ret.value
    /\ ret.embed_fail >= 2
    /\ ret.had_index

\* C7: every temporary file process_file created is gone when it returns,
\* on every exit path.
C7_TempFilesDeleted ==
    /\ tempfiles = 0
    /\ ret.op = "process_file" => ret.unlinked

----------------------------------------------------------------------------
(* chatbot_memory.trim_history *)

\* trim_history keeping the oldest entries (history[:max_length])
TrimHistoryHead(h, max_length) ==
    IF Len(h) > max_length THEN PySliceTo(h, max_length) ELSE h

\* trim_history(history, max_length)
TrimHistory(h, max_length) ==
    IF Len(h) > max_length THEN PySliceFrom(h, 0 - max_length) ELSE h

\* the i-th message of a conversation: the user speaks first, turns alternate
Message(i) == [role |-> IF i % 2 = 1 THEN "user" ELSE "assistant", message |-> i]

\* the conversation grows by one message
TrimAppend ==
    /\ Len(trim.history) < MaxHistory
    /\ trim' = [history |-> Append(trim.history, Message(Len(trim.history) + 1)),
                called |-> FALSE, max_length |-> 0, result |-> <<>>]
    /\ UNCHANGED <<vectorstores, tempfiles, ret, widget, sessions, history, session_data, callers>>

\* trim_history(history, max_length) is called on the conversation
TrimHistoryCall(max_length) ==
    /\ trim' = [history |-> trim.history, called |-> TRUE, max_length |-> max_length,
                result |-> TrimHistory(trim.history, max_length)]
    /\ UNCHANGED <<vectorstores, tempfiles, ret, widget, sessions, history, session_data, callers>>

NextTrim ==
    \/ TrimAppend
    \/ \E max_length \in 0..MaxHistory : TrimHistoryCall(max_length)

SpecTrim == Init /\ [][NextTrim]_vars

\* C8: trim_history(history, 20) on a history of length N > 20 returns
\* exactly the last 20 entries in their original order, and for N <= 20
\* returns the history unchanged.
C8_TrimKeepsLast20 ==
    (trim.called /\ trim.max_length = MAX_HISTORY_LENGTH)
    => LET h == trim.history
           n == Len(h)
       IN  IF n > 20
           THEN /\ Len(trim.result) = 20
                /\ \A i \in 1..20 : trim.result[i] = h[n - 20 + i]
           ELSE trim.result = h

\* trim_history(history, 20) was called on a history of more than 21 entries
C8_Witness ==
    /\ trim.called
    /\ trim.max_length = MAX_HISTORY_LENGTH
    /\ Len(trim.history) > 21
    /\ Len(trim.result) = 20

\* C23: for every history and every max_length >= 0,
\* trim_history(history, max_length) returns a suffix of history of length
\* min(len(history), max_length); in particular the result never has more
\* than max_length entries.
C23_TrimReturnsSuffix ==
    trim.called
    => LET h == trim.history
           n == Len(h)
           m == Min(n, trim.max_length)
       IN  /\ Len(trim.result) = m
           /\ \A i \in 1..m : trim.result[i] = h[n - m + i]
           /\ Len(trim.result) <= trim.max_length

----------------------------------------------------------------------------
(* The Supabase tables and the functions that write them                    *)
(* (chatbot_memory.py and the copies of them in app.py)                     *)

SessionNames == {"Untitled Chat", "Trip"}
Languages == {"English", "French"}
Roles == {"user", "assistant"}
Texts == {"hi"}

\* the requests one call makes to the store; each may fail on its own
StoreCalls == {"select", "upsert", "insert"}

\* supabase.table("sessions").update(data).eq("session_id", id): changes
\* the row if there is one
SessionsUpdate(tbl, sid, name, language) ==
    [s \in DOMAIN tbl |->
        IF s = sid THEN [name |-> name, language |-> language] ELSE tbl[s]]

\* supabase.table("sessions").insert(data): session_id is the unique key
SessionsInsert(tbl, sid, name, language) ==
    IF sid \in DOMAIN tbl
    THEN [raised |-> TRUE, sessions |-> tbl]
    ELSE [raised |-> FALSE,
          sessions |-> [s \in DOMAIN tbl \cup {sid} |->
                          IF s = sid THEN [name |-> name, language |-> language]
                          ELSE tbl[s]]]

\* history insert that does not look at the sessions table
HistoryInsertNoForeignKey(tbl, rows, row) ==
    [raised |-> FALSE, history |-> Append(rows, row)]

\* supabase.table("history").insert(data): history.session_id references
\* sessions, so the store rejects a row whose session is missing
HistoryInsert(tbl, rows, row) ==
    IF row.session_id \notin DOMAIN tbl
    THEN [raised |-> TRUE, history |-> rows]
    ELSE [raised |-> FALSE, history |-> Append(rows, row)]

\* a delete that leaves the messages of the session in the history table
SessionsDeleteNoCascade(tbl, rows, sid) ==
    [sessions |-> [s \in DOMAIN tbl \ {sid} |-> tbl[s]],
     history  |-> rows]

\* supabase.table("sessions").delete().eq("session_id", id), ON DELETE CASCADE
SessionsDelete(tbl, rows, sid) ==
    [sessions |-> [s \in DOMAIN tbl \ {sid} |-> tbl[s]],
     history  |-> SelectSeq(rows, LAMBDA r : r.session_id # sid)]

\* save_session_to_supabase(session_id, session_name, language)
\* value is the response, or None after an exception
SaveSession(tbl, sid, name, language, fails) ==
    IF "select" \in fails
    THEN [sessions |-> tbl, value |-> None]
    ELSE IF sid \in DOMAIN tbl                         \* existing.data
    THEN IF "upsert" \in fails
         THEN [sessions |-> tbl, value |-> None]
         ELSE [sessions |-> SessionsUpdate(tbl, sid, name, language),
               value |-> "response"]
    ELSE LET ins == SessionsInsert(tbl, sid, name, language)
         IN  IF "upsert" \in fails \/ ins.raised
             THEN [sessions |-> tbl, value |-> None]
             ELSE [sessions |-> ins.sessions, value |-> "response"]

\* save_message_to_supabase(session_id, role, message)
SaveMessage(tbl, rows, sid, role, message, fails) ==
    LET saved == SaveSession(tbl, sid, "Untitled Chat", "English", fails)
        row == [session_id |-> sid, role |-> role, message |-> message]
        ins == HistoryInsert(saved.sessions, rows, row)
    IN  IF "insert" \in fails \/ ins.raised
        THEN [sessions |-> saved.sessions, history |-> rows, value |-> None,
              upsert |-> saved.value]
        ELSE [sessions |-> saved.sessions, history |-> ins.history, value |-> "response",
              upsert |-> saved.value]

\* delete_session(session_id)
DeleteSession(tbl, rows, sid, fails) ==
    IF fails # {}
    THEN [sessions |-> tbl, history |-> rows, value |-> FALSE]
    ELSE LET del == SessionsDelete(tbl, rows, sid)
         IN  [sessions |-> del.sessions, history |-> del.history, value |-> TRUE]

\* app.py get_chat_history_from_supabase(session_id): the rows of the
\* session in timestamp order (the table is kept in insertion order, the
\* timestamp being assigned by the store on insert), as role and message;
\* [] after an exception
GetChatHistory(rows, sid, failed) ==
    IF failed THEN <<>>
    ELSE LET mine == SelectSeq(rows, LAMBDA r : r.session_id = sid)
         IN  [i \in 1..Len(mine) |->
                 [role |-> mine[i].role, message |-> mine[i].message]]

\* get_all_sessions(): the session ids listed, [] after an exception.  The
\* order of the listing (last_accessed, assigned by the store) and the
\* one-week filter are not modelled: every row counts as recent.
GetAllSessions(tbl, failed) ==
    IF failed THEN {} ELSE DOMAIN tbl

SaveSessionCall(sid, name, language, fails) ==
    LET r == SaveSession(sessions, sid, name, language, fails)
    IN  /\ sessions' = r.sessions
        /\ ret' = [op |-> "save_session_to_supabase", session_id |-> sid,
                   value |-> r.value]
        /\ UNCHANGED <<vectorstores, tempfiles, widget, history, trim, session_data, callers>>

SaveMessageCall(sid, role, message, fails) ==
    LET r == SaveMessage(sessions, history, sid, role, message, fails)
    IN  /\ Len(history) < MaxRows
        /\ sessions' = r.sessions
        /\ history' = r.history
        /\ ret' = [op |-> "save_message_to_supabase", session_id |-> sid,
                   value |-> r.value, upsert |-> r.upsert,
                   had_session |-> sid \in DOMAIN sessions]
        /\ UNCHANGED <<vectorstores, tempfiles, widget, trim, session_data, callers>>

DeleteSessionCall(sid, fails) ==
    LET r == DeleteSession(sessions, history, sid, fails)
    IN  /\ sessions' = r.sessions
        /\ history' = r.history
        /\ ret' = [op |-> "delete_session", session_id |-> sid, value |-> r.value,
                   had_messages |-> GetChatHistory(history, sid, FALSE) # <<>>]
        /\ UNCHANGED <<vectorstores, tempfiles, widget, trim, session_data, callers>>

GetChatHistoryCall(sid, failed) ==
    /\ ret' = [op |-> "get_chat_history_from_supabase", session_id |-> sid,
               value |-> GetChatHistory(history, sid, failed)]
    /\ UNCHANGED <<vectorstores, tempfiles, widget, sessions, history, trim,
                   session_data, callers>>

GetAllSessionsCall(failed) ==
    /\ ret' = [op |-> "get_all_sessions", session_id |-> None,
               value |-> GetAllSessions(sessions, failed)]
    /\ UNCHANGED <<vectorstores, tempfiles, widget, sessions, history, trim,
                   session_data, callers>>

NextStore ==
    \/ \E sid \in SessionIds, name \in SessionNames, language \in Languages,
          fails \in SUBSET {"select", "upsert"} :
          SaveSessionCall(sid, name, language, fails)
    \/ \E sid \in SessionIds, role \in Roles, message \in Texts,
          fails \in SUBSET StoreCalls :
          SaveMessageCall(sid, role, message, fails)
    \/ \E sid \in SessionIds, fails \in SUBSET {"delete"} :
          DeleteSessionCall(sid, fails)
    \/ \E sid \in SessionIds, failed \in BOOLEAN : GetChatHistoryCall(sid, failed)
    \/ \E failed \in BOOLEAN : GetAllSessionsCall(failed)

SpecStore == Init /\ [][NextStore]_vars

\* C10: referential integrity.  Every row of the history table references
\* a session that has a row in the sessions table, and a
\* save_message_to_supabase call that wrote its row, also one whose session
\* upsert failed, leaves the session row in place.
C10_ReferentialIntegrity ==
    /\ \A i \in 1..Len(history) : history[i].session_id \in DOMAIN sessions
    /\ (ret.op = "save_message_to_supabase" /\ ret.value # None)
          => ret.session_id \in DOMAIN sessions

\* a message was saved for a session that has no row while the upsert
\* meant to create it failed, with messages of another session in the table
C10_Witness ==
    /\ ret.op = "save_message_to_supabase"
    /\ ret.upsert = None
    /\ ~ret.had_session
    /\ ret.value = None
    /\ history # <<>>

\* C11: session deletion cascade.  After delete_session(id) has returned
\* True, the history read for id gives the empty list and the session
\* listing does not include id, while the row of every other session and
\* the messages read for it are what they were before the call.
C11_DeletionCascade ==
    [][(ret'.op = "delete_session" /\ ret'.value = TRUE) =>
          LET id == ret'.session_id
          IN  /\ GetChatHistory(history', id, FALSE) = <<>>
              /\ id \notin GetAllSessions(sessions', FALSE)
              /\ \A s \in SessionIds \ {id} :
                    /\ (s \in DOMAIN sessions') = (s \in DOMAIN sessions)
                    /\ s \in DOMAIN sessions => sessions'[s] = sessions[s]
                    /\ GetChatHistory(history', s, FALSE)
                          = GetChatHistory(history, s, FALSE)]_vars

\* a session that had messages was deleted while another session keeps its
\* row and its messages
C11_Witness ==
    /\ ret.op = "delete_session"
    /\ ret.value = TRUE
    /\ ret.had_messages
    /\ \E s \in DOMAIN sessions : GetChatHistory(history, s, FALSE) # <<>>

\* C20: saving a message leaves session metadata unchanged.  For a session
\* that has a row in the store, save_message_to_supabase(S, role, text)
\* adds one history row and changes neither the name nor the language of S.
C20_SaveMessageKeepsMetadata ==
    [][(ret'.op = "save_message_to_supabase" /\ ret'.had_session) =>
          /\ sessions'[ret'.session_id] = sessions[ret'.session_id]
          /\ ret'.value # None => Len(history') = Len(history) + 1]_vars

----------------------------------------------------------------------------
(* The in-memory session_data of chatbot_memory.py.  An entry holds the     *)
(* history list and the language; created_at and last_accessed (wall clock  *)
(* readings) are left out.                                                  *)

\* the entry both functions create for a session they have not seen
NewSessionData(language) == [history |-> <<>>, language |-> language]

\* session_data[session_id] = entry
SetSessionData(sd, sid, entry) ==
    [s \in DOMAIN sd \cup {sid} |-> IF s = sid THEN entry ELSE sd[s]]

\* get_session_history(session_id): the list kept in session_data, created
\* empty on first use; no statement of the module appends to it
GetSessionHistory(sd, sid) ==
    LET after == IF sid \in DOMAIN sd THEN sd
                 ELSE SetSessionData(sd, sid, NewSessionData("English"))
    IN  [session_data |-> after, value |-> after[sid].history]

\* set_session_language(session_id, language)
SetSessionLanguage(sd, sid, language) ==
    IF sid \notin DOMAIN sd
    THEN SetSessionData(sd, sid, NewSessionData(language))
    ELSE SetSessionData(sd, sid, [sd[sid] EXCEPT !.language = language])

\* chatbot_memory.py delete_session(session_id): the store delete, then the
\* session_data entry
DeleteSessionMemory(tbl, rows, sd, sid, fails) ==
    LET r == DeleteSession(tbl, rows, sid, fails)
    IN  [sessions |-> r.sessions, history |-> r.history, value |-> r.value,
         session_data |-> IF r.value THEN [s \in DOMAIN sd \ {sid} |-> sd[s]]
                          ELSE sd]

GetSessionHistoryCall(sid) ==
    LET r == GetSessionHistory(session_data, sid)
    IN  /\ session_data' = r.session_data
        /\ ret' = [op |-> "get_session_history", session_id |-> sid,
                   value |-> r.value]
        /\ UNCHANGED <<vectorstores, tempfiles, widget, sessions, history, trim,
                       callers>>

SetSessionLanguageCall(sid, language) ==
    /\ session_data' = SetSessionLanguage(session_data, sid, language)
    /\ ret' = [op |-> "set_session_language", session_id |-> sid,
               language |-> language]
    /\ UNCHANGED <<vectorstores, tempfiles, widget, sessions, history, trim,
                   callers>>

DeleteSessionMemoryCall(sid, fails) ==
    LET r == DeleteSessionMemory(sessions, history, session_data, sid, fails)
    IN  /\ sessions' = r.sessions
        /\ history' = r.history
        /\ session_data' = r.session_data
        /\ ret' = [op |-> "delete_session", session_id |-> sid, value |-> r.value,
                   had_messages |-> GetChatHistory(history, sid, FALSE) # <<>>]
        /\ UNCHANGED <<vectorstores, tempfiles, widget, trim, callers>>

NextMemory ==
    \/ \E sid \in SessionIds : GetSessionHistoryCall(sid)
    \/ \E sid \in SessionIds, language \in Languages :
          SetSessionLanguageCall(sid, language)
    \/ \E sid \in SessionIds, fails \in SUBSET {"delete"} :
          DeleteSessionMemoryCall(sid, fails)
    \/ \E sid \in SessionIds, message \in Texts, fails \in SUBSET StoreCalls :
          SaveMessageCall(sid, "user", message, fails)

SpecMemory == Init /\ [][NextMemory]_vars

\* C12: set_session_language(S, L) updates the preferred language of S in
\* the Session Store, creating the session record when it is absent, and a
\* second call with the same arguments leaves the state the first call left.
C12_SetLanguageInStore ==
    [][ret'.op = "set_session_language" =>
          /\ ret'.session_id \in DOMAIN sessions'
          /\ sessions'[ret'.session_id].language = ret'.language
          /\ (ret = ret') =>
                (sessions' = sessions /\ session_data' = session_data)]_vars

\* C13: history reads reflect persisted state.  After any sequence of
\* message saves and session deletions, get_session_history(S) returns
\* exactly the messages the store holds for S, in timestamp order.
C13_HistoryReadsStore ==
    ret.op = "get_session_history" =>
        ret.value = GetChatHistory(history, ret.session_id, FALSE)

----------------------------------------------------------------------------
(* Answer generation: invoke_with_language (chatbot_memory.py) next to      *)
(* RAGChain.answer_question                                                 *)

\* how a generation call ends: with the whole answer, with no text at all,
\* with an exception before the first fragment or after some fragments; or
\* not made at all because no API key is configured
GenOutcomes == {"ok", "empty", "fail_before", "fail_mid", "no_key"}

\* f"Error generating response: {str(e)}"
ErrorText == "Error generating response"

\* chatbot_memory.py get_chat_history_from_supabase(session_id): the rows
\* of the session in timestamp order, [] after an exception
GetChatHistoryRows(rows, sid, failed) ==
    IF failed THEN <<>> ELSE SelectSeq(rows, LAMBDA r : r.session_id = sid)

\* invoke_with_language(session_id, messages, language): messages is what
\* is handed to the model, value what the function returns
InvokeWithLanguage(rows, sid, messages, language, readFailed, gen) ==
    IF gen = "no_key"
    THEN [messages |-> <<>>, value |-> None]
    ELSE LET stored == GetChatHistoryRows(rows, sid, readFailed)
             window == PySliceFrom(stored, 0 - MAX_HISTORY_LENGTH)
             formatted_messages ==
                 <<[role |-> "system", content |-> language]>>
                 \o [i \in 1..Len(window) |->
                        [role |-> window[i].role, content |-> window[i].message]]
                 \o [i \in 1..Len(messages) |->
                        [role |-> "user", content |-> messages[i]]]
         IN  [messages |-> formatted_messages,
              value |-> CASE gen = "ok" -> "answer"         \* full_response
                          [] gen = "empty" -> ""
                          [] OTHER -> ErrorText]           \* except: return error_msg

InvokeWithLanguageCall(sid, text, language, readFailed, gen) ==
    LET r == InvokeWithLanguage(history, sid, <<text>>, language, readFailed, gen)
    IN  /\ ret' = [op |-> "invoke_with_language", session_id |-> sid,
                   gen |-> gen, messages |-> r.messages, value |-> r.value]
        /\ UNCHANGED <<vectorstores, tempfiles, widget, sessions, history, trim,
                       session_data, callers>>

NextPrompt ==
    \/ \E sid \in SessionIds : ProcessFileCall(FileNotes, sid, 0)
    \/ \E q \in Queries, sid \in SessionIds, chat_history \in ChatHistories,
          genOk \in BOOLEAN :
          \E order \in Rankings(vectorstores, sid, q) :
              AnswerQuestionCall(q, sid, chat_history, order, genOk)
    \/ \E message \in Texts : SaveMessageCall("sA", "user", message, {})
    \/ \E sid \in SessionIds, text \in Texts, language \in Languages,
          readFailed \in BOOLEAN, gen \in GenOutcomes :
          InvokeWithLanguageCall(sid, text, language, readFailed, gen)

SpecPrompt == Init /\ [][NextPrompt]_vars

\* C17: on both paths of answer_question the conversation history placed
\* in the prompt is exactly the last min(5, N) messages of the given
\* chat_history, in chronological order, each rendered as a line that
\* starts with "User: " for role user and with "Assistant: " for any other
\* role and carries the message.
C17_PromptHistoryWindow ==
    ret.op = "answer_question" =>
        LET given == ret.chat_history
            N     == Len(given)
            n     == Min(5, N)
            lines == ret.result.prompt.chat_history
        IN  /\ Len(lines) = n
            /\ \A i \in 1..n :
                  /\ lines[i].message = given[N - n + i].message
                  /\ lines[i].prefix = IF given[N - n + i].role = "user"
                                       THEN "User: " ELSE "Assistant: "

\* a grounded call given more than five messages, among the last five one
\* whose role is neither user nor assistant
C17_Witness ==
    /\ ret.op = "answer_question"
    /\ ret.result.path = "grounded"
    /\ Len(ret.chat_history) > 5
    /\ \E i \in 1..Len(ret.chat_history) :
          /\ i > Len(ret.chat_history) - 5
          /\ ret.chat_history[i].role \notin {"user", "assistant"}

\* C15: always return something.  When the generation call fails, the
\* caller of answer_question (grounded or ungrounded) and the caller of
\* invoke_with_language receive an answer text holding an error
\* description, not an exception.
C15_AlwaysReturnsText ==
    /\ ret.op = "answer_question" =>
          /\ ~ret.result.raised
          /\ ret.result.answer # ""
    /\ (ret.op = "invoke_with_language" /\ ret.gen \in {"fail_before", "fail_mid"}) =>
          ret.value = ErrorText

----------------------------------------------------------------------------
(* The Streamlit page script (app.py).  Every user request runs the script  *)
(* from the top; an action is one request with the run(s) it causes, and   *)
(* the state is the one the last run ends in.                              *)

\* the files st.file_uploader(type=[...]) accepts
UploaderFiles == {f \in Files : FileExtension(f) \in SupportedExtensions}

\* What a full script run does with documents: the api key block builds a
\* new RAGChain, and with it a new DocumentProcessor (lines 226-247); the
\* Document Upload expander hands the file the uploader holds to
\* process_file for the current session, and calls clear_documents when
\* its button was clicked (lines 395-415).
DocumentBlock(file, current, clearClicked, embedFail) ==
    LET fresh == NoStores
        up == IF file # NoFile
              THEN ProcessFile(fresh, file, current, embedFail)
              ELSE [vectorstores |-> fresh, value |-> FALSE, unlinked |-> TRUE]
        cl == IF clearClicked
              THEN ClearDocuments(up.vectorstores, current)
              ELSE [vectorstores |-> up.vectorstores, value |-> FALSE]
    IN  [vectorstores |-> cl.vectorstores,
         processed |-> file # NoFile, ingested |-> up.value,
         cleared |-> cl.value, unlinked |-> up.unlinked]

\* one request: w is the session state it leaves, tbl and rows the tables
PageRunStore(event, w, tbl, rows, clearClicked, embedFail) ==
    LET r == DocumentBlock(w.uploaded_file, w.current_session, clearClicked, embedFail)
        left == IF r.unlinked THEN 0 ELSE 1
    IN  /\ embedFail <= Len(w.uploaded_file.text)
        /\ tempfiles + left <= MaxTemp
        /\ widget' = w
        /\ sessions' = tbl
        /\ history' = rows
        /\ vectorstores' = r.vectorstores
        /\ tempfiles' = tempfiles + left
        /\ ret' = [op |-> "page_run", event |-> event, processed |-> r.processed,
                   ingested |-> r.ingested, cleared |-> r.cleared]
        /\ UNCHANGED <<trim, session_data, callers>>

\* a request that leaves the history table alone
PageRun(event, w, tbl, clearClicked, embedFail) ==
    PageRunStore(event, w, tbl, history, clearClicked, embedFail)

\* the user puts a file into the uploader
UploadFile(f, embedFail) ==
    PageRun("upload", [widget EXCEPT !.uploaded_file = f], sessions, FALSE, embedFail)

\* the user takes the file out of the uploader
RemoveFile ==
    /\ widget.uploaded_file # NoFile
    /\ PageRun("remove_file", [widget EXCEPT !.uploaded_file = NoFile], sessions, FALSE, 0)

\* the user clicks "Clear All Documents"
ClickClearDocuments(embedFail) ==
    PageRun("clear_documents", widget, sessions, TRUE, embedFail)

\* the user picks another session in the sidebar (lines 290-296)
SwitchSession(sid, embedFail) ==
    /\ sid \in DOMAIN sessions
    /\ sid # widget.current_session
    /\ PageRun("switch_session",
               [widget EXCEPT !.current_session = sid,
                              !.current_session_name = sessions[sid].name,
                              !.current_language = sessions[sid].language],
               sessions, FALSE, embedFail)

\* the user edits the chat name (lines 302-305)
RenameSession(name, fails, embedFail) ==
    /\ name # widget.current_session_name
    /\ PageRun("rename",
               [widget EXCEPT !.current_session_name = name],
               SaveSession(sessions, widget.current_session, name,
                           widget.current_language, fails).sessions,
               FALSE, embedFail)

\* any other interaction that only reruns the script
Rerun(embedFail) ==
    PageRun("rerun", widget, sessions, FALSE, embedFail)

\* session state after taking over a listed session (lines 291-295,
\* 346-349, 360-363)
TakeSession(w, tbl, sid) ==
    [w EXCEPT !.current_session = sid,
              !.current_session_name = tbl[sid].name,
              !.current_language = tbl[sid].language]

\* the "Select Session" radio of a run in which the user picks nothing
\* (lines 268-296): a current session that is not listed makes the radio
\* show the first listed session, which the script then switches to
SessionRadio(w, tbl, first) ==
    IF GetAllSessions(tbl, FALSE) # {} /\ w.current_session \notin GetAllSessions(tbl, FALSE)
    THEN TakeSession(w, tbl, first)
    ELSE w

\* the sessions that may be listed first: the listing is ordered by
\* last_accessed, which the store assigns, so any listed session may lead
FirstListed(listed) == IF listed = {} THEN {None} ELSE listed

\* the user clicks "New Chat" (lines 256-265); id is the fresh uuid
NewChat(id, fails, embedFail) ==
    /\ id \notin DOMAIN sessions
    /\ LET w == [widget EXCEPT !.current_session = id,
                               !.current_session_name = "New Chat",
                               !.current_language = "English"]
           tbl == SaveSession(sessions, id, "New Chat", "English", fails).sessions
       IN  \E first \in FirstListed(GetAllSessions(tbl, FALSE)) :
              PageRunStore("new_chat", SessionRadio(w, tbl, first), tbl, history,
                           FALSE, embedFail)

\* sessions table and history table after delete_session for each of ids
RECURSIVE DeleteSessions(_, _, _)
DeleteSessions(tbl, rows, ids) ==
    IF ids = {} THEN [sessions |-> tbl, history |-> rows]
    ELSE LET sid == CHOOSE x \in ids : TRUE
             r == DeleteSession(tbl, rows, sid, {})
         IN  DeleteSessions(r.sessions, r.history, ids \ {sid})

\* "Delete Selected Sessions" with the confirmation box checked (lines
\* 308-352); failed are the selected sessions whose delete_session fails.
\* Nothing keeps the user from selecting every listed session.
DeleteSelectedSessions(selected, failed, embedFail) ==
    /\ Cardinality(GetAllSessions(sessions, FALSE)) > 1
    /\ selected # {}
    /\ selected \subseteq GetAllSessions(sessions, FALSE)
    /\ failed \subseteq selected
    /\ LET del == DeleteSessions(sessions, history, selected \ failed)
           deleted_any == selected \ failed # {}
           need_rerun == widget.current_session \in selected
           remaining_sessions == GetAllSessions(del.sessions, FALSE)
       IN  \E first \in FirstListed(remaining_sessions) :
              LET w == IF deleted_any /\ need_rerun /\ remaining_sessions # {}
                       THEN TakeSession(widget, del.sessions, first)
                       ELSE widget
              IN  PageRunStore("delete_selected",
                               IF deleted_any
                               THEN SessionRadio(w, del.sessions, first) ELSE w,
                               del.sessions, del.history, FALSE, embedFail)

\* the user clicks "Delete Current Chat" (lines 354-366)
DeleteCurrentChat(fails, embedFail) ==
    LET existing_sessions == GetAllSessions(sessions, FALSE)
        r == DeleteSession(sessions, history, widget.current_session, fails)
        remaining_sessions == existing_sessions \ {widget.current_session}
    IN  IF Cardinality(existing_sessions) > 1 /\ r.value
        THEN \E first \in FirstListed(remaining_sessions) :
                PageRunStore("delete_current",
                             SessionRadio(TakeSession(widget, sessions, first),
                                          r.sessions, first),
                             r.sessions, r.history, FALSE, embedFail)
        ELSE PageRun("delete_current", widget, sessions, FALSE, embedFail)

\* the page open on session sA, the store holding two sessions
InitApp ==
    /\ InitDocs
    /\ InitWidget
    /\ InitTrim
    /\ InitMemory
    /\ InitCallers
    /\ sessions = [s \in SessionIds |->
                     [name |-> IF s = "sA" THEN "Trip" ELSE "Untitled Chat",
                      language |-> "English"]]
    /\ history = <<>>

NextApp ==
    \/ \E f \in UploaderFiles, embedFail \in 0..MaxChunks : UploadFile(f, embedFail)
    \/ RemoveFile
    \/ \E embedFail \in 0..MaxChunks : ClickClearDocuments(embedFail)
    \/ \E sid \in SessionIds, embedFail \in 0..MaxChunks : SwitchSession(sid, embedFail)
    \/ \E name \in SessionNames, fails \in SUBSET {"select", "upsert"},
          embedFail \in 0..MaxChunks : RenameSession(name, fails, embedFail)
    \/ \E embedFail \in 0..MaxChunks : Rerun(embedFail)
    \/ \E id \in SessionIds, fails \in SUBSET {"select", "upsert"},
          embedFail \in 0..MaxChunks : NewChat(id, fails, embedFail)
    \/ \E selected \in SUBSET SessionIds, failed \in SUBSET SessionIds,
          embedFail \in 0..MaxChunks :
          DeleteSelectedSessions(selected, failed, embedFail)
    \/ \E fails \in SUBSET {"delete"}, embedFail \in 0..MaxChunks :
          DeleteCurrentChat(fails, embedFail)

SpecApp == InitApp /\ [][NextApp]_vars

\* C4: document-mode state machine across user requests.  A session moves
\* from NoDocuments to DocumentsLoaded only by a successful ingestion the
\* user made for it, from DocumentsLoaded to NoDocuments only by an explicit
\* clear_documents for it, and switching session, renaming or any other
\* rerun of the page leaves every session's document mode and index content
\* as they were.
C4_DocumentModeMachine ==
    [][ret'.op = "page_run"
        => /\ \A S \in SessionIds :
                /\ (S \notin DOMAIN vectorstores /\ S \in DOMAIN vectorstores')
                      => /\ ret'.event = "upload"
                         /\ ret'.ingested
                         /\ widget'.current_session = S
                /\ (S \in DOMAIN vectorstores /\ S \notin DOMAIN vectorstores')
                      => /\ ret'.event = "clear_documents"
                         /\ ret'.cleared
                         /\ widget'.current_session = S
           /\ ret'.event \in {"switch_session", "rename", "rerun"}
                 => vectorstores' = vectorstores]_vars

\* C18: in every reachable state of a UI instance, after any sequence of
\* new-chat, switch, single-delete and multi-select-delete actions,
\* current_session identifies a session whose row exists in the Session
\* Store, and at least one session remains in the store.
C18_CurrentSessionExists ==
    /\ widget.current_session \in DOMAIN sessions
    /\ DOMAIN sessions # {}

----------------------------------------------------------------------------
(* Sending a message through the page script: the text input (lines         *)
(* 448-465) and the pending-message block at the end of the script (lines   *)
(* 576-627).  An action is one request with the reruns the script itself    *)
(* asks for.                                                                *)

MaxOutages == 1     \* store requests that fail within one request

\* the store requests of a request that sends a message
StoreSteps == {"user_upsert", "user_insert", "read",
               "assistant_upsert", "assistant_insert", "session"}

Outages == {o \in SUBSET StoreSteps : Cardinality(o) <= MaxOutages}

\* the failing requests of one save_message_to_supabase call
Fails(outage, upsert, insert) ==
    (IF upsert \in outage THEN {"upsert"} ELSE {})
    \cup (IF insert \in outage THEN {"insert"} ELSE {})

\* Python truth value of a response: None and "" are false
Truthy(response) == response \notin {None, ""}

\* rows written by the assistant
AssistantRows(rows) == SelectSeq(rows, LAMBDA r : r.role = "assistant")

\* the text input (lines 450-465): a prompt is taken only while no message
\* is pending; it becomes the pending message and is saved as a user row,
\* the result of the save not being looked at
TextInput(w, tbl, rows, prompt, outage) ==
    IF prompt = None \/ w.pending_user_message # None
    THEN [widget |-> w, sessions |-> tbl, history |-> rows,
          accepted |-> FALSE, saved |-> None]
    ELSE LET s == SaveMessage(tbl, rows, w.current_session, "user", prompt,
                              Fails(outage, "user_upsert", "user_insert"))
         IN  [widget |-> [w EXCEPT !.pending_user_message = prompt],
              sessions |-> s.sessions, history |-> s.history,
              accepted |-> TRUE, saved |-> s.value]

\* the message texts of a list of records with a message field
MessagesOf(lines) == [i \in 1..Len(lines) |-> lines[i].message]

\* what a request hands to the generation call: the history window and the
\* final user turn, as message texts (sent: whether the call was made)
NothingSent == [sent |-> FALSE, window |-> <<>>, question |-> None]

\* the prompt of answer_question: formatted_history and the question
SentByAnswerQuestion(rag) ==
    [sent |-> TRUE, window |-> MessagesOf(rag.prompt.chat_history),
     question |-> rag.prompt.question]

\* formatted_messages of invoke_with_language: the system message, the
\* history window, the new user message
SentByInvoke(inv) ==
    IF inv.messages = <<>> THEN NothingSent
    ELSE [sent |-> TRUE,
          window |-> [i \in 1..(Len(inv.messages) - 2) |-> inv.messages[i + 1].content],
          question |-> inv.messages[Len(inv.messages)].content]

\* the pending-message block (lines 577-627)
PendingMessage(w, tbl, rows, vs, outage, gen, order) ==
    IF w.pending_user_message = None
    THEN [widget |-> w, sessions |-> tbl, history |-> rows, handled |-> FALSE,
          use_rag |-> FALSE, raised |-> FALSE, response |-> None,
          saved |-> None, completed |-> FALSE, generation |-> NothingSent]
    ELSE LET current == w.current_session
             pending == w.pending_user_message
             chat_history == GetChatHistory(rows, current, "read" \in outage)
             use_rag == current \in DOMAIN vs
             rag == AnswerQuestion(vs, pending, current, chat_history, order,
                                   gen \notin {"fail_before", "fail_mid"})
             inv == InvokeWithLanguage(rows, current, <<pending>>,
                                       w.current_language, "read" \in outage, gen)
             raised == use_rag /\ rag.raised
             generation == IF use_rag THEN SentByAnswerQuestion(rag)
                           ELSE SentByInvoke(inv)
             response == IF use_rag
                         THEN (IF raised THEN None ELSE rag.answer)
                         ELSE inv.value
             a == SaveMessage(tbl, rows, current, "assistant", response,
                              Fails(outage, "assistant_upsert", "assistant_insert"))
             m == SaveSession(a.sessions, current, w.current_session_name,
                              w.current_language,
                              IF "session" \in outage THEN {"select"} ELSE {})
         IN  IF Truthy(response)
             THEN [widget |-> [w EXCEPT !.pending_user_message = None],
                   sessions |-> m.sessions, history |-> a.history,
                   handled |-> TRUE, use_rag |-> use_rag, raised |-> FALSE,
                   response |-> response, saved |-> a.value, completed |-> TRUE,
                   generation |-> generation]
             ELSE [widget |-> w, sessions |-> tbl, history |-> rows,
                   handled |-> TRUE, use_rag |-> use_rag, raised |-> raised,
                   response |-> response, saved |-> None, completed |-> FALSE,
                   generation |-> generation]

\* one request: the document block (doc is what it leaves), the text
\* input, the pending-message block.  A rerun asked for by the script
\* repeats the document block on the same uploader content and finds
\* nothing more to do.  Inputs that no step of the request reads are fixed.
ChatRun(event, prompt, doc, outage, gen, order) ==
    /\ doc.unlinked
    /\ (prompt # None /\ widget.pending_user_message = None)
          \/ outage \cap {"user_upsert", "user_insert"} = {}
    /\ (prompt # None \/ widget.pending_user_message # None)
          \/ (gen = "ok" /\ outage = {})
    /\ \E t \in {TextInput(widget, sessions, history, prompt, outage)} :
       \E h \in {PendingMessage(t.widget, t.sessions, t.history,
                                doc.vectorstores, outage, gen, order)} :
          /\ Len(h.history) <= MaxRows
          /\ widget' = h.widget
          /\ sessions' = h.sessions
          /\ history' = h.history
          /\ vectorstores' = doc.vectorstores
          /\ ret' = [op |-> "chat_run", event |-> event, prompt |-> prompt,
                     accepted |-> t.accepted, user_saved |-> t.saved,
                     handled |-> h.handled, use_rag |-> h.use_rag,
                     gen |-> IF h.handled THEN gen ELSE None,
                     raised |-> h.raised, response |-> h.response,
                     assistant_saved |-> h.saved, completed |-> h.completed,
                     generation |-> h.generation]
          /\ UNCHANGED <<tempfiles, trim, session_data, callers>>

\* the user sends a prompt from the text input
SubmitPrompt(prompt, embedFail, outage, gen) ==
    /\ embedFail <= Len(widget.uploaded_file.text)
    /\ \E doc \in {DocumentBlock(widget.uploaded_file, widget.current_session,
                                 FALSE, embedFail)} :
       \E order \in Rankings(doc.vectorstores, widget.current_session,
                             IF widget.pending_user_message = None THEN prompt
                             ELSE widget.pending_user_message) :
          ChatRun("prompt", prompt, doc, outage, gen, order)

\* any other interaction reruns the script
ChatRerun(embedFail, outage, gen) ==
    /\ embedFail <= Len(widget.uploaded_file.text)
    /\ \E doc \in {DocumentBlock(widget.uploaded_file, widget.current_session,
                                 FALSE, embedFail)} :
       \E order \in Rankings(doc.vectorstores, widget.current_session,
                             widget.pending_user_message) :
          ChatRun("rerun", None, doc, outage, gen, order)

\* the page open on session sA of two stored sessions, the uploader empty
\* or holding notes.txt, which the last run has indexed
InitChat ==
    /\ tempfiles = 0
    /\ ret = [op |-> "init"]
    /\ InitTrim
    /\ InitMemory
    /\ InitCallers
    /\ \E f \in {NoFile, FileNotes} :
          /\ widget = [current_session |-> "sA", current_session_name |-> "Trip",
                       current_language |-> "French", uploaded_file |-> f,
                       pending_user_message |-> None]
          /\ vectorstores = DocumentBlock(f, "sA", FALSE, 0).vectorstores
    /\ sessions = [s \in SessionIds |->
                     [name |-> IF s = "sA" THEN "Trip" ELSE "Untitled Chat",
                      language |-> IF s = "sA" THEN "French" ELSE "English"]]
    /\ history = <<>>

NextChat ==
    \/ \E prompt \in Queries, embedFail \in 0..1, outage \in Outages,
          gen \in GenOutcomes : SubmitPrompt(prompt, embedFail, outage, gen)
    \/ \E embedFail \in 0..1, outage \in Outages, gen \in GenOutcomes :
          ChatRerun(embedFail, outage, gen)

SpecChat == InitChat /\ [][NextChat]_vars

\* C14: no partial commit on generation failure.  When the generation call
\* of a request fails, before its first fragment or in the middle of the
\* sequence, the request is not completed and no assistant row, holding
\* the fragments received or any other text, is written to the history
\* table for it.
C14_NoCommitOnGenerationFailure ==
    [][(ret'.op = "chat_run" /\ ret'.handled
          /\ ret'.gen \in {"fail_before", "fail_mid"}) =>
          /\ AssistantRows(history') = AssistantRows(history)
          /\ ~ret'.completed]_vars

\* C16: a Session Store failure while saving never aborts the request
\* (an accepted prompt still reaches generation, an answer is still
\* produced), and the caller of a save that failed does not go on as if the
\* message had been saved: the request is not marked complete.
C16_SaveFailureNotSwallowed ==
    ret.op = "chat_run" =>
        /\ ret.accepted => ret.handled
        /\ ret.completed => ret.assistant_saved # None
        /\ (ret.accepted /\ ret.user_saved = None) => ~ret.completed

\* s is a suffix of t
IsSuffix(s, t) ==
    /\ Len(s) <= Len(t)
    /\ \A i \in 1..Len(s) : s[i] = t[Len(t) - Len(s) + i]

\* C21: the current question reaches the generation call exactly once per
\* request.  When a request takes a prompt and hands it to generation, by
\* invoke_with_language or by answer_question, the history window holds
\* only messages stored for the session before the prompt was sent, and
\* the prompt itself is the final user turn.
C21_QuestionSentOnce ==
    [][(ret'.op = "chat_run" /\ ret'.accepted /\ ret'.generation.sent) =>
          /\ ret'.generation.question = ret'.prompt
          /\ IsSuffix(ret'.generation.window,
                      MessagesOf(GetChatHistory(history, widget.current_session,
                                                FALSE)))]_vars

\* user rows of a session holding the given text
UserRows(rows, sid, text) ==
    SelectSeq(rows, LAMBDA r : r.session_id = sid /\ r.role = "user"
                               /\ r.message = text)

\* C22: pending-message protocol on the text path.  Every text prompt the
\* user submits is persisted as exactly one user message, also when an
\* earlier prompt is still pending because its generation failed or
\* returned nothing (requests whose user-row save fails are left aside);
\* the user message is written before its assistant message, a request
\* writes at most one assistant message, and pending_user_message is
\* cleared only after an answer was produced.
C22_PendingProtocol ==
    [][(ret'.op = "chat_run" /\ (ret'.accepted => ret'.user_saved # None)) =>
          /\ ret'.event = "prompt" =>
                Len(UserRows(history', widget.current_session, ret'.prompt))
                   = Len(UserRows(history, widget.current_session, ret'.prompt)) + 1
          /\ Len(AssistantRows(history')) <= Len(AssistantRows(history)) + 1
          /\ Len(AssistantRows(history')) > Len(AssistantRows(history)) =>
                history'[Len(history')].role = "assistant"
          /\ (widget.pending_user_message # None \/ ret'.accepted)
                /\ widget'.pending_user_message = None
                => Truthy(ret'.response)]_vars

----------------------------------------------------------------------------
(* save_session_to_supabase run by two callers at once (two browser         *)
(* sessions, or two server processes, on the same store).  A call is two    *)
(* store requests, the existence check (line 71) and the insert or update   *)
(* chosen by its answer (lines 80, 89); the requests of the callers         *)
(* interleave in any order.                                                 *)

SetCall(c, call) == [callers EXCEPT !.calls[c] = call]

\* the call ends: its caller is the one that completed last
EndCall(c, call, value) ==
    [calls |-> [callers.calls EXCEPT ![c] = [call EXCEPT !.pc = "done", !.value = value]],
     last  |-> c]

\* existing = supabase.table("sessions").select("*").eq(...).execute()
UpsertSelect(c, sid, name, language, outage) ==
    LET call == [IdleCall EXCEPT !.session_id = sid, !.name = name,
                                 !.language = language, !.outage = outage]
    IN  /\ callers.calls[c].pc = "idle"
        /\ callers' = IF outage
                      THEN EndCall(c, call, None)          \* except: return None
                      ELSE SetCall(c, [call EXCEPT !.pc = "checked",
                                                   !.existing = sid \in DOMAIN sessions])
        /\ UNCHANGED <<vectorstores, tempfiles, ret, widget, sessions, history,
                       trim, session_data>>

\* the update (line 80) when the check found a row, the insert (line 89)
\* when it found none; an insert that meets a row of the same session_id
\* raises, and the except branch returns None
UpsertWrite(c, outage) ==
    LET call == [callers.calls[c] EXCEPT !.outage = outage]
        ins == SessionsInsert(sessions, call.session_id, call.name, call.language)
    IN  /\ callers.calls[c].pc = "checked"
        /\ IF outage
           THEN /\ callers' = EndCall(c, call, None)
                /\ UNCHANGED sessions
           ELSE IF call.existing
           THEN /\ sessions' = SessionsUpdate(sessions, call.session_id,
                                              call.name, call.language)
                /\ callers' = EndCall(c, call, "response")
           ELSE /\ sessions' = ins.sessions
                /\ callers' = EndCall(c, call, IF ins.raised THEN None ELSE "response")
        /\ UNCHANGED <<vectorstores, tempfiles, ret, widget, history, trim,
                       session_data>>

\* the caller takes the result and is free to call again
UpsertReturn(c) ==
    /\ callers.calls[c].pc = "done"
    /\ callers' = SetCall(c, IdleCall)
    /\ UNCHANGED <<vectorstores, tempfiles, ret, widget, sessions, history,
                   trim, session_data>>

NextUpsert ==
    \/ \E c \in Callers, sid \in SessionIds, name \in SessionNames,
          language \in Languages, outage \in BOOLEAN :
          UpsertSelect(c, sid, name, language, outage)
    \/ \E c \in Callers, outage \in BOOLEAN : UpsertWrite(c, outage)
    \/ \E c \in Callers : UpsertReturn(c)

SpecUpsert == Init /\ [][NextUpsert]_vars

\* C19: concurrent session upserts are last-write-wins.  When two callers
\* have run save_session_to_supabase for the same session_id with their
\* steps interleaved and no store request failed, the store holds one row
\* for that id, the row has the name and language of the call that
\* completed last, and neither call ended in an error.
C19_LastWriteWins ==
    \A c1, c2 \in Callers :
        LET a == callers.calls[c1]
            b == callers.calls[c2]
        IN  (/\ c1 # c2
             /\ a.pc = "done" /\ b.pc = "done"
             /\ a.session_id = b.session_id
             /\ ~a.outage /\ ~b.outage) =>
                /\ a.session_id \in DOMAIN sessions
                /\ sessions[a.session_id]
                      = [name |-> callers.calls[callers.last].name,
                         language |-> callers.calls[callers.last].language]
                /\ a.value # None
                /\ b.value # None

====
